---- MODULE Spec2Model ----
(***************************************************************************)
(* A model of pytest-suggest's compressed trie (src/pytest_suggest/trie.py):*)
(* Node objects live in a heap (a sequence of records, a node's identity   *)
(* is its index, the root of a Trie is node 1), Trie.from_words runs one   *)
(* loop iteration per step, and the queries, save and load act on the      *)
(* trie that from_words returned.                                          *)
(***************************************************************************)
EXTENDS Integers, Sequences, FiniteSets, TLC

\* The code units words are made of, and the bounds of the model.
Chars == {"a", "b"}
MaxLen == 3
MaxWords == 2

\* None: the absent node (a heap index is at least 1).
None == 0

\* All strings of at most n code units.
Strs(n) == UNION {[1..k -> Chars] : k \in 0..n}

\* The strings a word or a query is drawn from.
Strings == Strs(MaxLen)

Range(s) == {s[i] : i \in 1..Len(s)}

StartsWith(s, p) == Len(p) <= Len(s) /\ SubSeq(s, 1, Len(p)) = p

(***************************************************************************)
(* Node                                                                    *)
(***************************************************************************)

\* Node.__init__: children is a dict, kept as the sequence of its items
\* (key k, node n) in insertion order.
NewNode(prefix, part_len, is_word) ==
    [prefix |-> prefix, part_len |-> part_len, children |-> <<>>,
     is_word |-> is_word, parent |-> None]

\* Node.root
RootNode == NewNode(<<>>, 0, FALSE)

\* Node.prefix_part: prefix[-part_len:], as Python slices (-0 is 0, and a
\* start before the beginning is the beginning).
PrefixPart(node) ==
    IF node.part_len = 0 \/ node.part_len >= Len(node.prefix)
    THEN node.prefix
    ELSE SubSeq(node.prefix, Len(node.prefix) - node.part_len + 1, Len(node.prefix))

\* dict.keys() and dict.values() of a node's children.
ChildKeys(node) == {node.children[i].k : i \in 1..Len(node.children)}

ChildIds(node) == [i \in 1..Len(node.children) |-> node.children[i].n]

\* Node.get_child: children.get(child)
GetChild(node, ch) ==
    IF ch \in ChildKeys(node)
    THEN node.children[CHOOSE i \in 1..Len(node.children) : node.children[i].k = ch].n
    ELSE None

\* dict.__setitem__: an existing key keeps its place and takes the new value,
\* a new key is appended.
DictSet(items, key, id) ==
    IF \E i \in 1..Len(items) : items[i].k = key
    THEN [i \in 1..Len(items) |->
            IF items[i].k = key THEN [k |-> key, n |-> id] ELSE items[i]]
    ELSE Append(items, [k |-> key, n |-> id])

\* Node.add_child_node, on the heap: parent pid takes node cid as the child
\* keyed by the first code unit of cid's part.
\* (Faulty variant: the parent's dict is replaced, `self.children = {key: node}`.)
AddChildNodeReset(heap, pid, cid) ==
    [heap EXCEPT ![pid].children = <<[k |-> PrefixPart(heap[cid])[1], n |-> cid]>>,
                 ![cid].parent = pid]

AddChildNode(heap, pid, cid) ==
    [heap EXCEPT ![pid].children = DictSet(@, PrefixPart(heap[cid])[1], cid),
                 ![cid].parent = pid]

\* Node.add_child: the new node is the last of the heap.
AddChild(heap, pid, part, is_word) ==
    AddChildNode(Append(heap, NewNode(heap[pid].prefix \o part, Len(part), is_word)),
                 pid, Len(heap) + 1)

\* Node.merge_with_child's guard: it raises RuntimeError unless this holds.
\* (Faulty variant: a word node is not refused.)
CanMergeWordNode(node) == Len(node.children) = 1

CanMerge(node) == ~node.is_word /\ Len(node.children) = 1

\* Node.merge_with_child, when it does not raise: popitem takes the last
\* (only) child.
\* (Faulty variants: the grandchildren keep their old parent; part_len is not
\* summed.)
MergeWithChildNoRepoint(heap, id) ==
    LET child == heap[heap[id].children[Len(heap[id].children)].n]
    IN [heap EXCEPT ![id] = [@ EXCEPT !.part_len = @ + child.part_len,
                                      !.prefix = child.prefix,
                                      !.children = child.children,
                                      !.is_word = child.is_word]]

MergeWithChildKeepLen(heap, id) ==
    LET child == heap[heap[id].children[Len(heap[id].children)].n]
        grand == Range(ChildIds(child))
    IN [i \in 1..Len(heap) |->
          IF i = id
          THEN [heap[i] EXCEPT !.prefix = child.prefix,
                               !.children = child.children,
                               !.is_word = child.is_word]
          ELSE IF i \in grand THEN [heap[i] EXCEPT !.parent = id]
          ELSE heap[i]]

MergeWithChild(heap, id) ==
    LET child == heap[heap[id].children[Len(heap[id].children)].n]
        grand == Range(ChildIds(child))
    IN [i \in 1..Len(heap) |->
          IF i = id
          THEN [heap[i] EXCEPT !.part_len = @ + child.part_len,
                               !.prefix = child.prefix,
                               !.children = child.children,
                               !.is_word = child.is_word]
          ELSE IF i \in grand THEN [heap[i] EXCEPT !.parent = id]
          ELSE heap[i]]

\* Node.merge_with_child as a call: it raises before it changes anything, or
\* merges.
MergeWithChildCall(heap, id) ==
    IF CanMerge(heap[id])
    THEN [heap |-> MergeWithChild(heap, id), raised |-> "none"]
    ELSE [heap |-> heap, raised |-> "RuntimeError"]

(***************************************************************************)
(* Trie.from_words and Trie._compress, one loop iteration at a time        *)
(***************************************************************************)

\* Trie.__init__
EmptyTrie == [nodes |-> <<RootNode>>, size |-> 0]

\* The body of `for char in word`: descend into the child for ch, or create it.
\* (`if child := cur.get_child(char)`: a Node is always truthy.)
InsertChar(heap, cur, ch) ==
    IF GetChild(heap[cur], ch) # None
    THEN [heap |-> heap, cur |-> GetChild(heap[cur], ch)]
    ELSE [heap |-> AddChild(heap, cur, <<ch>>, FALSE), cur |-> Len(heap) + 1]

\* `cur.is_word = True; trie._size += 1`
\* (Faulty variant: is_word is flipped instead of set.)
MarkWordToggle(t, cur) ==
    [nodes |-> [t.nodes EXCEPT ![cur].is_word = ~@], size |-> t.size + 1]

MarkWord(t, cur) ==
    [nodes |-> [t.nodes EXCEPT ![cur].is_word = TRUE], size |-> t.size + 1]

\* The test of Trie._compress that keeps a node as it is.
\* (Faulty variants: a node already merged once is kept; the root is not exempt.)
KeepNodeNoRepeat(node) ==
    Len(node.children) # 1 \/ node.is_word \/ node.part_len # 1

KeepNodeMergeRoot(node) ==
    Len(node.children) # 1 \/ node.is_word

KeepNode(node) ==
    Len(node.children) # 1 \/ node.is_word \/ node.part_len = 0

\* One iteration of the `while stack` loop of Trie._compress.
\* (Faulty variants: a merged node is not pushed back, its children are; a kept
\* node that has children is pushed back in their place.)
CompressStepNoPushBack(heap, stack) ==
    LET current == stack[Len(stack)]
        rest == SubSeq(stack, 1, Len(stack) - 1)
    IN IF KeepNode(heap[current])
       THEN [heap |-> heap, stack |-> rest \o ChildIds(heap[current])]
       ELSE [heap |-> MergeWithChild(heap, current),
             stack |-> rest \o ChildIds(MergeWithChild(heap, current)[current])]

CompressStepRequeue(heap, stack) ==
    LET current == stack[Len(stack)]
        rest == SubSeq(stack, 1, Len(stack) - 1)
    IN IF KeepNode(heap[current])
       THEN [heap |-> heap,
             stack |-> IF heap[current].children = <<>>
                       THEN rest
                       ELSE Append(rest, current)]
       ELSE [heap |-> MergeWithChild(heap, current), stack |-> Append(rest, current)]

CompressStep(heap, stack) ==
    LET current == stack[Len(stack)]
        rest == SubSeq(stack, 1, Len(stack) - 1)
    IN IF KeepNode(heap[current])
       THEN [heap |-> heap, stack |-> rest \o ChildIds(heap[current])]
       ELSE [heap |-> MergeWithChild(heap, current), stack |-> Append(rest, current)]

(***************************************************************************)
(* Trie.from_words as a function of the whole word sequence: the same loop *)
(* bodies, run to completion.                                              *)
(***************************************************************************)

RECURSIVE InsertChars(_, _, _, _)
InsertChars(heap, cur, word, i) ==
    IF i > Len(word) THEN [heap |-> heap, cur |-> cur]
    ELSE LET r == InsertChar(heap, cur, word[i])
         IN InsertChars(r.heap, r.cur, word, i + 1)

\* One iteration of `for word in words`.
InsertWord(t, word) ==
    LET r == InsertChars(t.nodes, 1, word, 1)
    IN MarkWord([t EXCEPT !.nodes = r.heap], r.cur)

RECURSIVE InsertWords(_, _, _)
InsertWords(t, W, i) ==
    IF i > Len(W) THEN t ELSE InsertWords(InsertWord(t, W[i]), W, i + 1)

\* Trie._compress: the `while stack` loop.
RECURSIVE CompressLoop(_, _)
CompressLoop(heap, stack) ==
    IF stack = <<>> THEN heap
    ELSE LET r == CompressStep(heap, stack) IN CompressLoop(r.heap, r.stack)

Compress(t) == [t EXCEPT !.nodes = CompressLoop(t.nodes, <<1>>)]

FromWords(W) == Compress(InsertWords(EmptyTrie, W, 1))

(***************************************************************************)
(* Queries                                                                 *)
(***************************************************************************)

\* Trie._find_node: c is the 0-based index `cur`; None when a child is missing.
RECURSIVE FindNodeLoop(_, _, _, _)
FindNodeLoop(heap, prefix, current, c) ==
    IF c < Len(prefix)
    THEN LET child == GetChild(heap[current], prefix[c + 1])
         IN IF child = None THEN None
            ELSE FindNodeLoop(heap, prefix, child, c + heap[child].part_len)
    ELSE current

FindNode(t, prefix) == FindNodeLoop(t.nodes, prefix, 1, 0)

\* Trie.__contains__ (a Node is always truthy, so `if node :=` tests for None).
\* (Faulty variant: `node.prefix == word` is not tested.)
ContainsNoPrefixCheck(t, word) ==
    LET node == FindNode(t, word)
    IN IF node # None THEN t.nodes[node].is_word ELSE FALSE

Contains(t, word) ==
    LET node == FindNode(t, word)
    IN IF node # None
       THEN t.nodes[node].is_word /\ t.nodes[node].prefix = word
       ELSE FALSE

\* Trie.words: the `while stack` loop; out is the sequence of yielded words.
RECURSIVE WordsLoop(_, _, _)
\* (Faulty variant: only the first child of a node is pushed.)
WordsLoopFirstChild(heap, stk, out) ==
    IF stk = <<>> THEN out
    ELSE LET current == heap[stk[Len(stk)]]
         IN WordsLoop(heap,
                      SubSeq(stk, 1, Len(stk) - 1)
                        \o (IF current.children = <<>> THEN <<>>
                            ELSE <<current.children[1].n>>),
                      IF current.is_word THEN Append(out, current.prefix) ELSE out)

WordsLoop(heap, stk, out) ==
    IF stk = <<>> THEN out
    ELSE LET current == heap[stk[Len(stk)]]
         IN WordsLoop(heap,
                      SubSeq(stk, 1, Len(stk) - 1) \o ChildIds(current),
                      IF current.is_word THEN Append(out, current.prefix) ELSE out)

\* Trie.words: the sequence of words the generator yields.
\* (Faulty variant: a prefix with no node falls back to the root.)
WordsFallbackAll(t, prefix) ==
    LET node == FindNode(t, prefix)
    IN WordsLoop(t.nodes,
                 IF prefix # <<>> /\ node # None THEN <<node>> ELSE <<1>>,
                 <<>>)

Words(t, prefix) ==
    LET node == FindNode(t, prefix)
    IN WordsLoop(t.nodes,
                 IF prefix # <<>>
                 THEN (IF node # None THEN <<node>> ELSE <<>>)
                 ELSE <<1>>,
                 <<>>)

(***************************************************************************)
(* Persistence: the dictionary form that orjson and bz2 carry losslessly   *)
(***************************************************************************)

\* Node._to_dict, given the children already converted: "c" is present only
\* when there are children.
\* (Faulty variant: "p" holds the full prefix instead of the part.)
NodeDictFullPrefix(node, children) ==
    IF children # <<>>
    THEN [p |-> node.prefix, l |-> node.part_len, w |-> node.is_word, c |-> children]
    ELSE [p |-> node.prefix, l |-> node.part_len, w |-> node.is_word]

NodeDict(node, children) ==
    IF children # <<>>
    THEN [p |-> PrefixPart(node), l |-> node.part_len, w |-> node.is_word,
          c |-> children]
    ELSE [p |-> PrefixPart(node), l |-> node.part_len, w |-> node.is_word]

\* Node._to_dict: a dict is kept as the sequence of its items (key k, value v).
RECURSIVE ToDict(_, _)
ToDict(heap, id) ==
    NodeDict(heap[id],
             [i \in 1..Len(heap[id].children) |->
                [k |-> heap[id].children[i].k, v |-> ToDict(heap, heap[id].children[i].n)]])

\* Trie.save: what is written (orjson.dumps and bz2.compress are undone
\* exactly by bz2.decompress and orjson.loads).
Save(t) == [r |-> ToDict(t.nodes, 1), s |-> t.size]

\* Node._from_dict: the node is created first, then each of data.get("c", {})
\* .values() is converted and attached with add_child_node.
RECURSIVE FromDict(_, _, _), FromDictChildren(_, _, _, _, _)
FromDict(heap, data, prefix) ==
    LET id == Len(heap) + 1
        h1 == Append(heap, NewNode(prefix \o data.p, data.l, data.w))
    IN [heap |-> FromDictChildren(h1, id,
                                  IF "c" \in DOMAIN data THEN data.c ELSE <<>>,
                                  1, prefix \o data.p),
        id |-> id]

FromDictChildren(heap, id, items, i, prefix) ==
    IF i > Len(items) THEN heap
    ELSE LET r == FromDict(heap, items[i].v, prefix)
         IN FromDictChildren(AddChildNode(r.heap, id, r.id), id, items, i + 1, prefix)

\* Trie.load of well-formed data: the root is the first node created.
Load(data) == [nodes |-> FromDict(<<>>, data.r, <<>>).heap, size |-> data.s]

\* The node equality of the tests (_check_node_eq), on two heaps.
RECURSIVE NodeEq(_, _, _, _)
NodeEq(h1, i1, h2, i2) ==
    /\ h1[i1].prefix = h2[i2].prefix
    /\ h1[i1].part_len = h2[i2].part_len
    /\ h1[i1].is_word = h2[i2].is_word
    /\ ChildKeys(h1[i1]) = ChildKeys(h2[i2])
    /\ \A k \in ChildKeys(h1[i1]) :
          NodeEq(h1, GetChild(h1[i1], k), h2, GetChild(h2[i2], k))

\* Two tries have structurally identical node graphs.
SameGraph(t1, t2) == NodeEq(t1.nodes, 1, t2.nodes, 1)

VARIABLES
    words,   \* the words the iterable has yielded so far (W)
    pc,      \* where the caller is: "next", "chars", "compress", "built", ...
    trie,    \* the Trie under construction, then returned: [nodes, size]
    cur,     \* from_words: the node reached in the current word
    ci,      \* from_words: the number of code units of the word consumed
    stack,   \* _compress: the work stack
    res,     \* the last query and its result: [op, arg, out], or NoRes
    file,    \* the content of the index file, or NoFile
    loaded,  \* the Trie that Trie.load returned, or NoTrie
    call,    \* the last direct call on the trie's nodes and its outcome, or NoCall
    err,     \* the exception the last Trie.load raised, or "none"
    sess,    \* the pytest session that builds the index
    cli      \* the run of the suggest command, or NoRun

vars == <<words, pc, trie, cur, ci, stack, res, file, loaded, call, err, sess, cli>>

NoRes == [op |-> "none"]
NoFile == [absent |-> TRUE]
NoTrie == [nodes |-> <<>>, size |-> 0]
NoCall == [op |-> "none"]
NoSession == [pc |-> "none"]
NoRun == [pc |-> "none"]

\* Trie.load as a call on the decoded data: a missing "r" or "s" entry is a
\* KeyError inside the try block, re-raised as ValueError.
\* (Faulty variant: a missing size entry is read as 0.)
LoadCallLenient(data) ==
    IF "r" \notin DOMAIN data
    THEN [raised |-> "ValueError", trie |-> NoTrie]
    ELSE [raised |-> "none",
          trie |-> [nodes |-> FromDict(<<>>, data.r, <<>>).heap,
                    size |-> IF "s" \in DOMAIN data THEN data.s ELSE 0]]

LoadCall(data) ==
    IF "r" \notin DOMAIN data \/ "s" \notin DOMAIN data
    THEN [raised |-> "ValueError", trie |-> NoTrie]
    ELSE [raised |-> "none", trie |-> Load(data)]

\* The index file just after open(FILE_NAME, "wb"): it exists and holds no
\* byte.
EmptyFile == [empty |-> TRUE]

\* The index file's content when pytest starts: none, or the complete index
\* an earlier session wrote.
PrevFiles == {NoFile, Save(FromWords(<< <<"b">> >>))}

\* The lists of node ids a collection can produce.
ItemLists == UNION {[1..n -> Strings] : n \in 0..MaxWords}

\* SuggestPlugin.pytest_sessionfinish: the exit status it leaves in
\* session.exitstatus.
\* (Faulty variant: the status is left as it is.)
SessionFinishStatusKeep(exitstatus) == exitstatus

SessionFinishStatus(exitstatus) ==
    IF exitstatus = "NO_TESTS_COLLECTED" THEN "OK" ELSE exitstatus

(***************************************************************************)
(* The suggest command (cli/suggest.py)                                    *)
(***************************************************************************)

\* The code point of a code unit.
Ord(c) == IF c = "a" THEN 97 ELSE 98

\* str.__lt__: the order `sorted` uses.
RECURSIVE StrLess(_, _)
StrLess(s, t) ==
    IF t = <<>> THEN FALSE
    ELSE IF s = <<>> THEN TRUE
    ELSE IF Ord(Head(s)) # Ord(Head(t)) THEN Ord(Head(s)) < Ord(Head(t))
    ELSE StrLess(Tail(s), Tail(t))

\* sorted(...), with the order and the stability of the built-in
Sorted(seq) == SortSeq(seq, StrLess)

\* print_suggestions, `with open(index, "rb") as f: trie = Trie.load(f)`: the
\* trie, or the exception raised.
OpenAndLoad(f) ==
    IF f = NoFile
    THEN [raised |-> "FileNotFoundError", trie |-> NoTrie]
    ELSE LoadCall(f)

\* print_suggestions after the load (r): the process's exit status, standard
\* output (one line per print) and standard error.
\* (Faulty variant: FileNotFoundError is not caught, so the interpreter prints
\* the traceback.)
PrintSuggestionsUncaught(r, prefix) ==
    IF r.raised # "none"
    THEN [pc |-> "exited", prefix |-> prefix, exit |-> 1, stdout |-> <<>>,
          stderr |-> <<r.raised>>]
    ELSE [pc |-> "exited", prefix |-> prefix, exit |-> 0,
          stdout |-> Sorted(Words(r.trie, prefix)), stderr |-> <<>>]

PrintSuggestions(r, prefix) ==
    IF r.raised = "FileNotFoundError"
    THEN [pc |-> "exited", prefix |-> prefix, exit |-> 1, stdout |-> <<>>,
          stderr |-> <<>>]
    ELSE IF r.raised # "none"
    THEN [pc |-> "exited", prefix |-> prefix, exit |-> 1, stdout |-> <<>>,
          stderr |-> <<r.raised>>]
    ELSE [pc |-> "exited", prefix |-> prefix, exit |-> 0,
          stdout |-> Sorted(Words(r.trie, prefix)), stderr |-> <<>>]

Init ==
    /\ words = <<>>
    /\ pc = "next"
    /\ trie = EmptyTrie
    /\ cur = None
    /\ ci = 0
    /\ stack = <<>>
    /\ res = NoRes
    /\ file = NoFile
    /\ loaded = NoTrie
    /\ call = NoCall
    /\ err = "none"
    /\ sess = NoSession
    /\ cli = NoRun

\* `for word in words`: the iterable yields another word.
NextWord(w) ==
    /\ pc = "next"
    /\ Len(words) < MaxWords
    /\ words' = Append(words, w)
    /\ cur' = 1
    /\ ci' = 0
    /\ pc' = "chars"
    /\ UNCHANGED <<trie, stack, res, file, loaded>>
    /\ UNCHANGED <<call, err, sess, cli>>

\* `for char in word`: one code unit.
InsertCharStep ==
    /\ pc = "chars"
    /\ ci < Len(words[Len(words)])
    /\ LET r == InsertChar(trie.nodes, cur, words[Len(words)][ci + 1])
       IN /\ trie' = [trie EXCEPT !.nodes = r.heap]
          /\ cur' = r.cur
    /\ ci' = ci + 1
    /\ UNCHANGED <<words, pc, stack, res, file, loaded>>
    /\ UNCHANGED <<call, err, sess, cli>>

\* The word is consumed: mark its node and count it.
MarkWordStep ==
    /\ pc = "chars"
    /\ ci = Len(words[Len(words)])
    /\ trie' = MarkWord(trie, cur)
    /\ pc' = "next"
    /\ UNCHANGED <<words, cur, ci, stack, res, file, loaded>>
    /\ UNCHANGED <<call, err, sess, cli>>

\* The iterable is exhausted: `trie._compress()` starts with the root on the stack.
StartCompress ==
    /\ pc = "next"
    /\ pc' = "compress"
    /\ stack' = <<1>>
    /\ UNCHANGED <<words, trie, cur, ci, res, file, loaded>>
    /\ UNCHANGED <<call, err, sess, cli>>

CompressStepAction ==
    /\ pc = "compress"
    /\ stack # <<>>
    /\ LET r == CompressStep(trie.nodes, stack)
       IN /\ trie' = [trie EXCEPT !.nodes = r.heap]
          /\ stack' = r.stack
    /\ UNCHANGED <<words, pc, cur, ci, res, file, loaded>>
    /\ UNCHANGED <<call, err, sess, cli>>

\* The stack is empty: from_words returns the trie.
ReturnTrie ==
    /\ pc = "compress"
    /\ stack = <<>>
    /\ pc' = "built"
    /\ UNCHANGED <<words, trie, cur, ci, stack, res, file, loaded>>
    /\ UNCHANGED <<call, err, sess, cli>>

\* `word in trie` on the returned trie.
ContainsQuery(w) ==
    /\ pc = "built"
    /\ res' = [op |-> "contains", arg |-> w, out |-> Contains(trie, w)]
    /\ pc' = "queried"
    /\ UNCHANGED <<words, trie, cur, ci, stack, file, loaded>>
    /\ UNCHANGED <<call, err, sess, cli>>

\* `list(trie.words(p))` on the returned trie.
WordsQuery(p) ==
    /\ pc = "built"
    /\ res' = [op |-> "words", arg |-> p, out |-> Words(trie, p)]
    /\ pc' = "queried"
    /\ UNCHANGED <<words, trie, cur, ci, stack, file, loaded>>
    /\ UNCHANGED <<call, err, sess, cli>>

\* `trie.save(f)`
SaveTrie ==
    /\ pc = "built"
    /\ file' = Save(trie)
    /\ pc' = "saved"
    /\ UNCHANGED <<words, trie, cur, ci, stack, res, loaded>>
    /\ UNCHANGED <<call, err, sess, cli>>

\* The file's content is damaged between the save and the load: the decoded
\* structure lacks the entries in `keys`.
DamageFile(keys) ==
    /\ pc = "saved"
    /\ keys # {}
    /\ keys \subseteq DOMAIN file
    /\ DOMAIN file = {"r", "s"}
    /\ file' = [k \in DOMAIN file \ keys |-> file[k]]
    /\ UNCHANGED <<words, pc, trie, cur, ci, stack, res, loaded>>
    /\ UNCHANGED <<call, err, sess, cli>>

\* `Trie.load(f)` of the file just saved: it returns a trie, or raises and
\* returns nothing.
LoadTrie ==
    /\ pc = "saved"
    /\ \A r \in {LoadCall(file)} :
          /\ loaded' = (IF r.raised = "none" THEN r.trie ELSE loaded)
          /\ err' = r.raised
          /\ pc' = (IF r.raised = "none" THEN "loaded" ELSE "loadfailed")
    /\ UNCHANGED <<words, trie, cur, ci, stack, res, file>>
    /\ UNCHANGED <<call, sess, cli>>

\* `pytest-suggest suggest <prefix>` run before the index file exists
\* (the trie is built but not saved) or after it was saved.
Suggest(prefix) ==
    /\ pc \in {"built", "saved"}
    /\ cli = NoRun
    /\ \A r \in {OpenAndLoad(file)} : cli' = PrintSuggestions(r, prefix)
    /\ pc' = "suggested"
    /\ UNCHANGED <<words, trie, cur, ci, stack, res, file, loaded>>
    /\ UNCHANGED <<call, err, sess>>

\* `trie._compress()` called a second time, on the trie from_words returned.
RecompressStart ==
    /\ pc = "built"
    /\ pc' = "recompress"
    /\ stack' = <<1>>
    /\ call' = [op |-> "compress", before |-> trie.nodes, merges |-> 0]
    /\ UNCHANGED <<words, trie, cur, ci, res, file, loaded, err, sess, cli>>

RecompressStep ==
    /\ pc = "recompress"
    /\ stack # <<>>
    /\ \A r \in {CompressStep(trie.nodes, stack)} :
          /\ trie' = [trie EXCEPT !.nodes = r.heap]
          /\ stack' = r.stack
          /\ call' = [call EXCEPT !.merges = IF r.heap # trie.nodes
                                             THEN @ + 1 ELSE @]
    /\ UNCHANGED <<words, pc, cur, ci, res, file, loaded, err, sess, cli>>

RecompressReturn ==
    /\ pc = "recompress"
    /\ stack = <<>>
    /\ pc' = "recompressed"
    /\ UNCHANGED <<words, trie, cur, ci, stack, res, file, loaded>>
    /\ UNCHANGED <<call, err, sess, cli>>

(***************************************************************************)
(* A pytest session with the plugin installed (plugin.py)                  *)
(***************************************************************************)

\* pytest starts in a directory whose index file is `prev`; pytest_configure
\* registers SuggestPlugin only when --build-suggestion-index was given.
SessionStart(opt, prev) ==
    /\ sess = NoSession
    /\ pc = "next"
    /\ words = <<>>
    /\ file' = prev
    /\ sess' = [pc |-> "configured", opt |-> opt, registered |-> opt,
                prev |-> prev, collected |-> <<>>, items |-> <<>>,
                deselected |-> <<>>, executed |-> <<>>, exitstatus |-> "none"]
    /\ UNCHANGED <<words, pc, trie, cur, ci, stack, res, loaded, call, err, cli>>

\* pytest collects the items (their node ids) and, when the plugin is
\* registered, calls its pytest_collection_modifyitems.
Collect(ids) ==
    /\ sess.pc = "configured"
    /\ sess' = [sess EXCEPT !.collected = ids, !.items = ids,
                            !.pc = IF sess.registered THEN "hook" ELSE "collected"]
    /\ UNCHANGED <<words, pc, trie, cur, ci, stack, res, file, loaded>>
    /\ UNCHANGED <<call, err, cli>>

\* pytest_collection_modifyitems, `Trie.from_words(item.nodeid for item in
\* items)`: the generator yields the next item's node id, or is exhausted.
HookNextWord ==
    /\ sess.pc = "hook"
    /\ Len(words) < Len(sess.items)
    /\ NextWord(sess.items[Len(words) + 1])

HookInsertCharStep == sess.pc = "hook" /\ InsertCharStep

HookMarkWordStep == sess.pc = "hook" /\ MarkWordStep

HookStartCompress ==
    /\ sess.pc = "hook"
    /\ Len(words) = Len(sess.items)
    /\ StartCompress

HookCompressStep == sess.pc = "hook" /\ CompressStepAction

HookReturnTrie == sess.pc = "hook" /\ ReturnTrie

\* pytest_collection_modifyitems, `open(FILE_NAME, "wb")`: the file is created
\* or truncated.
HookOpen ==
    /\ sess.pc = "hook"
    /\ pc = "built"
    /\ file' = EmptyFile
    /\ sess' = [sess EXCEPT !.pc = "opened"]
    /\ UNCHANGED <<words, pc, trie, cur, ci, stack, res, loaded, call, err, cli>>

\* pytest_collection_modifyitems, `trie.save(f)` and the end of the with
\* block: the buffered bytes reach the file.
HookSave ==
    /\ sess.pc = "opened"
    /\ file' = Save(trie)
    /\ sess' = [sess EXCEPT !.pc = "saved"]
    /\ UNCHANGED <<words, pc, trie, cur, ci, stack, res, loaded, call, err, cli>>

\* pytest_collection_modifyitems, `config.hook.pytest_deselected(items=items)`
HookDeselected ==
    /\ sess.pc = "saved"
    /\ sess' = [sess EXCEPT !.deselected = sess.items, !.pc = "deselected"]
    /\ UNCHANGED <<words, pc, trie, cur, ci, stack, res, file, loaded>>
    /\ UNCHANGED <<call, err, cli>>

\* pytest_collection_modifyitems, `items.clear()`
HookClear ==
    /\ sess.pc = "deselected"
    /\ sess' = [sess EXCEPT !.items = <<>>, !.pc = "cleared"]
    /\ UNCHANGED <<words, pc, trie, cur, ci, stack, res, file, loaded>>
    /\ UNCHANGED <<call, err, cli>>

\* pytest runs the items left in the list; with none left the session's exit
\* status is NO_TESTS_COLLECTED, otherwise the tests decide it.
RunTests(outcome) ==
    /\ sess.pc \in {"collected", "cleared"}
    /\ sess' = [sess EXCEPT !.executed = sess.items,
                            !.exitstatus = IF sess.items = <<>>
                                           THEN "NO_TESTS_COLLECTED"
                                           ELSE outcome,
                            !.pc = "ran"]
    /\ UNCHANGED <<words, pc, trie, cur, ci, stack, res, file, loaded>>
    /\ UNCHANGED <<call, err, cli>>

\* pytest calls pytest_sessionfinish of the registered plugins and exits with
\* session.exitstatus.
SessionFinish ==
    /\ sess.pc = "ran"
    /\ sess' = [sess EXCEPT !.exitstatus = IF sess.registered
                                           THEN SessionFinishStatus(@)
                                           ELSE @,
                            !.pc = "finished"]
    /\ UNCHANGED <<words, pc, trie, cur, ci, stack, res, file, loaded>>
    /\ UNCHANGED <<call, err, cli>>

\* Another process opens and reads the index file while the hook is between
\* its from_words call and its pytest_deselected call.
ReadIndex ==
    /\ sess.pc \in {"hook", "opened", "saved"}
    /\ pc = "built"
    /\ cli = NoRun
    /\ cli' = [pc |-> "read", seen |-> file]
    /\ UNCHANGED <<words, pc, trie, cur, ci, stack, res, file, loaded>>
    /\ UNCHANGED <<call, err, sess>>

\* `node.merge_with_child()` called directly on a node of the trie as it is
\* between two words (not yet compressed).
MergeNode(id) ==
    /\ pc = "next"
    /\ LET r == MergeWithChildCall(trie.nodes, id)
       IN /\ trie' = [trie EXCEPT !.nodes = r.heap]
          /\ call' = [op |-> "merge", id |-> id, before |-> trie.nodes,
                      raised |-> r.raised]
    /\ pc' = "merged"
    /\ UNCHANGED <<words, cur, ci, stack, res, file, loaded, err, sess, cli>>

\* The insertion phase of Trie.from_words.
Insert ==
    \/ \E w \in Strings : NextWord(w)
    \/ InsertCharStep
    \/ MarkWordStep

\* A direct merge_with_child call.
Merge == \E id \in 1..Len(trie.nodes) : MergeNode(id)

\* Trie.from_words, from the first word to the returned trie.
Build ==
    \/ \E w \in Strings : NextWord(w)
    \/ InsertCharStep
    \/ MarkWordStep
    \/ StartCompress
    \/ CompressStepAction
    \/ ReturnTrie

\* A query on the returned trie.
Query ==
    \/ \E w \in Strings : ContainsQuery(w)
    \/ \E p \in Strings : WordsQuery(p)

\* The returned trie saved to the index file and loaded back.
Codec ==
    \/ SaveTrie
    \/ LoadTrie

Next == Build \/ Query \/ Codec

\* The whole program.
Spec == Init /\ [][Next]_vars

\* Construction alone, construction followed by one query, and construction
\* followed by save and load.
SpecBuild == Init /\ [][Build]_vars

SpecQuery == Init /\ [][Build \/ Query]_vars

SpecCodec == Init /\ [][Build \/ Codec]_vars

\* The saved data loses entries before it is loaded.
Damage == \E keys \in SUBSET {"r", "s"} : DamageFile(keys)

\* Build, save, possibly damage the saved data, then load.
SpecLoad == Init /\ [][Build \/ Codec \/ Damage]_vars

\* The suggest command, for any prefix.
Cli == \E p \in Strings : Suggest(p)

\* Build and save the index; the suggest command runs before or after the save.
SpecCli == Init /\ [][Build \/ SaveTrie \/ Cli]_vars

\* pytest_collection_modifyitems of the registered plugin, step by step.
Hook ==
    \/ HookNextWord
    \/ HookInsertCharStep
    \/ HookMarkWordStep
    \/ HookStartCompress
    \/ HookCompressStep
    \/ HookReturnTrie
    \/ HookOpen
    \/ HookSave
    \/ HookDeselected
    \/ HookClear

\* What pytest itself does in a session.
Session ==
    \/ \E opt \in BOOLEAN, prev \in PrevFiles : SessionStart(opt, prev)
    \/ sess.pc = "configured" /\ \E ids \in ItemLists : Collect(ids)
    \/ \E outcome \in {"OK", "TESTS_FAILED"} : RunTests(outcome)
    \/ SessionFinish

\* A pytest session, with or without --build-suggestion-index, and a reader of
\* the index file.
SpecSession == Init /\ [][Session \/ Hook \/ ReadIndex]_vars

\* A second run of Trie._compress.
Recompress == RecompressStart \/ RecompressStep \/ RecompressReturn

\* from_words, then _compress once more on the returned trie.
SpecRecompress == Init /\ [][Build \/ Recompress]_vars

\* from_words as a running call: the interpreter keeps executing the loop of
\* _compress and the return that follows it.
SpecLive ==
    /\ Init
    /\ [][Build]_vars
    /\ WF_vars(CompressStepAction)
    /\ WF_vars(ReturnTrie)

\* Insertion followed by one direct merge_with_child call.
SpecMerge == Init /\ [][Insert \/ Merge]_vars

(***************************************************************************)
(* Helpers of the properties                                               *)
(***************************************************************************)

\* The nodes reachable from node id through children.
RECURSIVE ReachableFrom(_, _)
ReachableFrom(heap, id) ==
    {id} \cup UNION {ReachableFrom(heap, heap[id].children[i].n) :
                        i \in 1..Len(heap[id].children)}

\* The orderings of the word sequence W.
Perms(W) ==
    {[i \in 1..Len(W) |-> W[f[i]]] :
        f \in {g \in [1..Len(W) -> 1..Len(W)] :
                 \A i, j \in 1..Len(W) : g[i] = g[j] => i = j}}

\* The number of times w is yielded in the sequence out.
Count(out, w) == Cardinality({i \in 1..Len(out) : out[i] = w})

\* The words whose node from_words has marked so far.
Marked == IF pc = "chars" THEN SubSeq(words, 1, Len(words) - 1) ELSE words

\* What a trie answers to every membership test and to every enumeration
\* (as a set).
Answers(t) ==
    [q \in Strings |-> [contains |-> Contains(t, q), words |-> Range(Words(t, q))]]

(***************************************************************************)
(* Properties                                                              *)
(***************************************************************************)

\* C1: loading what save wrote yields a trie whose node graph is structurally
\* identical to the saved trie's (prefix, part_len, is_word and child keys at
\* every node, recursively) and whose size is the saved size.
C1_RoundTrip ==
    pc = "loaded" => SameGraph(trie, loaded) /\ loaded.size = trie.size

\* C1 witness: a trie with a compressed edge below a non-root node was saved
\* and loaded.
C1_Witness ==
    /\ pc = "loaded"
    /\ \E i \in 2..Len(loaded.nodes) :
          loaded.nodes[i].part_len >= 2 /\ loaded.nodes[i].parent # 1

\* C2: `w in trie` is true exactly when w is one of the words given to
\* from_words.
C2_ContainsIffStored ==
    res.op = "contains" => (res.out = (res.arg \in Range(words)))

\* C2 witness: a query that reaches a word node by length alone but differs
\* from its prefix, and is reported absent.
C2_Witness ==
    /\ res.op = "contains"
    /\ res.out = FALSE
    /\ FindNode(trie, res.arg) # None
    /\ trie.nodes[FindNode(trie, res.arg)].is_word

\* C3: every string words(p) yields is one of the words given to from_words
\* and starts with p.
C3_WordsStartWithPrefix ==
    res.op = "words" =>
        \A i \in 1..Len(res.out) :
            res.out[i] \in Range(words) /\ StartsWith(res.out[i], res.arg)

\* C4: every distinct word of W that starts with p is yielded by words(p)
\* exactly once.
C4_WordsComplete ==
    res.op = "words" =>
        \A w \in Range(words) : StartsWith(w, res.arg) => Count(res.out, w) = 1

\* C4 witness: W holds a word twice, and the prefix asked ends inside the
\* compressed edge of a word that has a longer word below it.
C4_Witness ==
    /\ res.op = "words"
    /\ Len(words) = 2 /\ words[1] = words[2]
    /\ res.arg # <<>>
    /\ StartsWith(words[1], res.arg) /\ words[1] # res.arg
    /\ Len(res.out) = 1

\* C5: the size of from_words(W) is the number of distinct words of W.
C5_SizeCountsDistinct ==
    pc = "built" => trie.size = Cardinality(Range(words))

\* C6: from_words(W) and from_words(W ++ W) have structurally identical node
\* graphs and answer every membership test and every enumeration identically.
\* (The second trie is bound by a one-element quantifier, which computes it once.)
C6_DuplicatesChangeNothing ==
    pc = "built" =>
        \A twice \in {FromWords(words \o words)} :
            /\ SameGraph(trie, twice)
            /\ \A q \in Strings :
                  /\ Contains(trie, q) = Contains(twice, q)
                  /\ Words(trie, q) = Words(twice, q)

\* C6 witness: from_words returned a trie of two different words with a
\* merged edge.
C6_Witness ==
    /\ pc = "built"
    /\ Len(words) = 2 /\ words[1] # words[2]
    /\ \E i \in ReachableFrom(trie.nodes, 1) : trie.nodes[i].part_len >= 2

\* C7: after from_words returns, no non-root node reachable from the root has
\* exactly one child while is_word is false.
C7_NoPassThroughNode ==
    pc = "built" =>
        \A i \in ReachableFrom(trie.nodes, 1) \ {1} :
            ~(Len(trie.nodes[i].children) = 1 /\ ~trie.nodes[i].is_word)

\* C7 witness: a node that was merged twice (re-examined after its first
\* merge) is in the returned trie.
C7_Witness ==
    /\ pc = "built"
    /\ \E i \in ReachableFrom(trie.nodes, 1) : trie.nodes[i].part_len >= 3

\* C8 as stated: the root has the empty prefix, part_len 0 and is_word false
\* in every state of from_words, whatever the lengths of the words.
C8_RootNeverWord ==
    /\ trie.nodes[1].prefix = <<>>
    /\ trie.nodes[1].part_len = 0
    /\ trie.nodes[1].is_word = FALSE

\* C8 amended: the root has the empty prefix and part_len 0 before and after
\* compression (it is never merged), and its is_word is true exactly when the
\* empty string is one of the words inserted.
C8_RootShape ==
    /\ trie.nodes[1].prefix = <<>>
    /\ trie.nodes[1].part_len = 0
    /\ trie.nodes[1].is_word = (<<>> \in Range(Marked))

\* C8 witness: after compression the root has exactly one child and is not a
\* word, and a merge has happened below it.
C8_Witness ==
    /\ pc = "built"
    /\ Len(trie.nodes[1].children) = 1
    /\ ~trie.nodes[1].is_word
    /\ trie.nodes[trie.nodes[1].children[1].n].part_len >= 2

\* C9: when p1 is a prefix of p2, every word words(p2) yields is yielded by
\* words(p1).
C9_PrefixMonotone ==
    res.op = "words" =>
        \A k \in 0..Len(res.arg) :
            Range(res.out) \subseteq Range(Words(trie, SubSeq(res.arg, 1, k)))

\* C9 witness: p2 ends inside a compressed edge, has a non-empty strict
\* prefix p1, and words(p2) yields something.
C9_Witness ==
    /\ res.op = "words"
    /\ Len(res.arg) >= 2
    /\ res.out # <<>>
    /\ FindNode(trie, res.arg) # None
    /\ Len(trie.nodes[FindNode(trie, res.arg)].prefix) > Len(res.arg)

\* C10: tries built from two orderings of the same words have structurally
\* identical node graphs and answer every membership test and every
\* enumeration (as a set) alike.
C10_OrderIndependent ==
    pc = "built" =>
        \A answers \in {Answers(trie)} :
            \A W2 \in Perms(words) :
                \A other \in {FromWords(W2)} :
                    SameGraph(trie, other) /\ Answers(other) = answers

\* C10 witness: two words whose other ordering allocates the nodes
\* differently, so that only the structure can agree.
C10_Witness ==
    /\ pc = "built"
    /\ Len(words) = 2
    /\ FromWords(<<words[2], words[1]>>).nodes # trie.nodes
    /\ \E i \in ReachableFrom(trie.nodes, 1) : Len(trie.nodes[i].children) = 2

C12_LoadRejectsMissingKeys ==
    (/\ pc \in {"loaded", "loadfailed"}
     /\ ("r" \notin DOMAIN file \/ "s" \notin DOMAIN file))
    => /\ err = "ValueError"
       /\ loaded = NoTrie

\* C12 witness: a file with its root entry but without its size entry was
\* loaded.
C12_Witness ==
    /\ pc = "loadfailed"
    /\ DOMAIN file = {"r"}
    /\ trie.size > 0

\* C13: the suggest command run while the index file does not exist ends with
\* exit status 1, nothing on standard output and nothing on standard error.
C13_SuggestWithoutIndex ==
    (cli.pc = "exited" /\ file = NoFile)
    => /\ cli.exit = 1
       /\ cli.stdout = <<>>
       /\ cli.stderr = <<>>

\* C13 witness: the command ran with a prefix of a word of the built trie
\* while the index file did not exist.
C13_Witness ==
    /\ cli.pc = "exited"
    /\ file = NoFile
    /\ cli.prefix # <<>>
    /\ \E i \in 1..Len(words) : StartsWith(words[i], cli.prefix)

\* Whether a sequence has no repeated element.
Distinct(seq) == Cardinality(Range(seq)) = Len(seq)

\* C14: with --build-suggestion-index the hook first builds and writes the index
\* (loading it enumerates exactly the collected node ids, and its size is their
\* number when they are distinct), only then reports every item as deselected
\* and empties the list, so no test is executed and the session ends with OK;
\* without the option the plugin is not registered and no index is written.
C14_BuildIndexSession ==
    sess.pc # "none" =>
      /\ sess.registered = sess.opt
      /\ ~sess.opt => file = sess.prev
      /\ (sess.opt /\ sess.pc \in {"hook", "opened", "saved"}) =>
            /\ sess.deselected = <<>>
            /\ sess.items = sess.collected
      /\ (sess.opt /\ sess.pc \in {"deselected", "cleared", "ran", "finished"}) =>
            /\ sess.deselected = sess.collected
            /\ \A r \in {LoadCall(file)} :
                  /\ r.raised = "none"
                  /\ Range(Words(r.trie, <<>>)) = Range(sess.collected)
                  /\ Distinct(sess.collected) => r.trie.size = Len(sess.collected)
      /\ (sess.opt /\ sess.pc \in {"cleared", "ran", "finished"}) =>
            sess.items = <<>>
      /\ (sess.opt /\ sess.pc \in {"ran", "finished"}) => sess.executed = <<>>
      /\ (sess.opt /\ sess.pc = "finished") => sess.exitstatus = "OK"

\* C14 witness: a session with the option, over two distinct collected items
\* and an older index in place, has finished.
C14_Witness ==
    /\ sess.pc = "finished"
    /\ sess.opt
    /\ sess.prev # NoFile
    /\ Len(sess.collected) = 2
    /\ sess.collected[1] # sess.collected[2]

\* C15: the index file is replaced as a whole: a reader at any moment of a save
\* sees the complete previous content or the complete new content, never an
\* empty or partial file.
C15_AtomicReplace ==
    cli.pc = "read" => cli.seen \in {sess.prev, Save(trie)}

\* C16: a second _compress on the trie from_words returned performs no merge
\* and leaves the node graph structurally identical.
C16_CompressIdempotent ==
    call.op = "compress" =>
      /\ call.merges = 0
      /\ pc = "recompressed" =>
            /\ NodeEq(call.before, 1, trie.nodes, 1)
            /\ trie.nodes = call.before

\* C16 witness: the second pass has finished on a trie whose first pass merged
\* a node twice and that has a branching node.
C16_Witness ==
    /\ call.op = "compress"
    /\ pc = "recompressed"
    /\ \E i \in ReachableFrom(trie.nodes, 1) : trie.nodes[i].part_len >= 3
    /\ \E i \in ReachableFrom(trie.nodes, 1) : Len(trie.nodes[i].children) = 2

\* The edges of the trie rooted at node 1 are well formed: each child's prefix
\* extends the
\* parent's by part_len >= 1 code units, the first of which is the child's key.
EdgesOK(heap) ==
    \A i \in ReachableFrom(heap, 1) :
      \A e \in 1..Len(heap[i].children) :
        \A child \in {heap[heap[i].children[e].n]} :
          /\ child.part_len >= 1
          /\ Len(child.prefix) = Len(heap[i].prefix) + child.part_len
          /\ SubSeq(child.prefix, 1, Len(heap[i].prefix)) = heap[i].prefix
          /\ child.prefix[Len(heap[i].prefix) + 1] = heap[i].children[e].k

\* C17: in every state during and after from_words, and in every loaded trie,
\* each edge with key k leads to a child whose prefix is the parent's prefix
\* followed by exactly part_len >= 1 code units, the first of which is k.
C17_EdgesWellFormed ==
    /\ EdgesOK(trie.nodes)
    /\ pc = "loaded" => EdgesOK(loaded.nodes)

\* C17 witness: a trie with an edge of two or more code units below a non-root
\* node was saved and loaded.
C17_Witness ==
    /\ pc = "loaded"
    /\ \E i \in ReachableFrom(loaded.nodes, 1) \ {1} :
          /\ loaded.nodes[i].part_len >= 2
          /\ loaded.nodes[i].parent # 1

Pending == UNION {ReachableFrom(trie.nodes, stack[i]) : i \in 1..Len(stack)}

\* C19: _compress terminates on every trie the insertion phase produces: each
\* iteration removes one node by a merge or retires the popped node for good
\* (one node fewer is pending), so the stack becomes empty and from_words
\* returns.
C19_CompressTerminates ==
    /\ [][(pc = "compress" /\ pc' = "compress")
            => Cardinality(Pending') = Cardinality(Pending) - 1]_vars
    /\ (pc = "compress") ~> (pc = "built")

\* C19 witness: from_words returned a trie of two words in which a node was
\* pushed back and merged again and another node branches.
C19_Witness ==
    /\ pc = "built"
    /\ Len(words) = 2
    /\ \E i \in ReachableFrom(trie.nodes, 1) : trie.nodes[i].part_len >= 3
    /\ \E i \in ReachableFrom(trie.nodes, 1) : Len(trie.nodes[i].children) = 2

\* The steps of from_words build what FromWords computes.
StepsAgree == pc = "built" => trie = FromWords(words)

====
